---- MODULE Spec2Model ----
(***************************************************************************)
(* kiam::when! (src/src/lib.rs): the macro_rules matcher of the clause     *)
(* list, the transcriber that emits the if / else if chain, and the run of *)
(* the emitted chain at the use site.                                      *)
(*                                                                         *)
(* Source tokens are taken at the granularity the matcher's groups work    *)
(* at:                                                                     *)
(*   "let"  the prefix  let $pat:pat =        (pattern  Some(x))           *)
(*   "arm"  $cond:expr => $branch:expr                                     *)
(*   "_"    _ => $def_branch:expr                                          *)
(*   ","    a comma                                                        *)
(* An arm or a default is identified by its position in the token list.    *)
(***************************************************************************)
EXTENDS Integers, Sequences, FiniteSets, TLC

\* Longest arbitrary token list given to the matcher.
MaxTokens == 6
\* Most clauses of a generated well-formed clause list.
MaxClauses == 3
\* Payloads v of the destructure targets Some(v).
MaxPayload == 2

VARIABLES
    tokens,     \* the macro invocation's token list
    exprPos,    \* TRUE: the invocation stands where a value is required
    bodyTy,     \* the type of the clause bodies at the use site: "int" or "unit"
    pc,         \* "match", "matched", "expanded", "checked", "run", "done",
                \* "syntax_error", "type_error"
    pos,        \* matcher: index of the next token
    mps,        \* matcher: the live matcher positions with their captures
    clauses,    \* captured $cond/$branch repetitions, in order
    def,        \* captured $def_branch (its token index), 0 when absent
    emitted,    \* the transcribed token list
    env,        \* run: outcome of each guard expression
    cur,        \* run: the part of the chain still to run
    inBody,     \* run: 0, or the arm whose block is being entered
    scope,      \* run: stack of the bindings of x visible at this point;
                \* the use site's own x is -1
    trace,      \* run: the evaluations made so far, in order
    result      \* run: the value of the chain, "none" until it is done

vars == <<tokens, exprPos, bodyTy, pc, pos, mps, clauses, def, emitted,
          env, cur, inBody, scope, trace, result>>

Alphabet == {"let", "arm", "_", ","}

----------------------------------------------------------------------------
(* Source texts *)

RECURSIVE SeqsUpTo(_, _)
SeqsUpTo(S, n) ==
    IF n = 0 THEN {<<>>}
    ELSE LET shorter == SeqsUpTo(S, n - 1)
         IN  shorter \cup {Append(s, x) : s \in {t \in shorter : Len(t) = n - 1}, x \in S}

\* One clause of the grammar's "line": an optional let prefix, then the arm.
Line(kind) == IF kind = "let" THEN <<"let", "arm">> ELSE <<"arm">>

RECURSIVE Lines(_)
Lines(kinds) ==
    IF kinds = <<>> THEN <<>>
    ELSE Line(Head(kinds)) \o (IF Len(kinds) > 1 THEN <<",">> ELSE <<>>) \o Lines(Tail(kinds))

\* The grammar of the macro's documentation: lines separated by commas, an
\* optional  , _ => expr  and an optional trailing comma.
Render(kinds, hasDef, trailing) ==
    Lines(kinds) \o (IF hasDef THEN <<",", "_">> ELSE <<>>)
                 \o (IF trailing THEN <<",">> ELSE <<>>)

KindSeqs == SeqsUpTo({"bool", "let"}, MaxClauses) \ {<<>>}

WellFormed == {Render(k, d, t) : k \in KindSeqs, d \in BOOLEAN, t \in BOOLEAN}

----------------------------------------------------------------------------
(* The matcher of macro_rules! when *)

\* Matcher positions: what the matcher is waiting for.
\*   "clause"  start of  $( $(let $pat:pat = )? $cond:expr => $branch:expr ),+
\*   "cond"    after the let prefix: $cond:expr => $branch:expr
\*   "post"    after a clause: separator, default group, trailing comma or end
\*   "under"   inside  $(, _ => $def_branch:expr)?  after its comma
\*   "postdef" after the default group: trailing comma or end
\*   "end"     after  $(,)?
Mp(st, cls, isLet, d) == [st |-> st, cls |-> cls, isLet |-> isLet, def |-> d]

InitialMps == {Mp("clause", <<>>, FALSE, 0)}

\* Mutant: the default group taken inside the repetition, so that clauses
\* may follow it.
StepMpDefaultAnywhere(mp, tok, i) ==
    CASE mp.st = "clause" /\ tok = "let" ->
            {Mp("cond", mp.cls, TRUE, mp.def)}
      [] mp.st \in {"clause", "cond"} /\ tok = "arm" ->
            {Mp("post", Append(mp.cls, [kind |-> IF mp.isLet THEN "let" ELSE "bool",
                                        at |-> i]), FALSE, mp.def)}
      [] mp.st = "clause" /\ tok = "_" ->
            {Mp("post", mp.cls, FALSE, i)}
      [] mp.st \in {"post", "postdef"} /\ tok = "," ->
            {Mp("clause", mp.cls, FALSE, mp.def),
             Mp("under", mp.cls, FALSE, mp.def),
             Mp("end", mp.cls, FALSE, mp.def)}
      [] mp.st = "under" /\ tok = "_" ->
            {Mp("postdef", mp.cls, FALSE, i)}
      [] OTHER -> {}

\* Mutant: the matcher without its final  $(,)?
StepMpNoTrailingComma(mp, tok, i) ==
    CASE mp.st = "clause" /\ tok = "let" ->
            {Mp("cond", mp.cls, TRUE, mp.def)}
      [] mp.st \in {"clause", "cond"} /\ tok = "arm" ->
            {Mp("post", Append(mp.cls, [kind |-> IF mp.isLet THEN "let" ELSE "bool",
                                        at |-> i]), FALSE, mp.def)}
      [] mp.st = "post" /\ tok = "," ->
            {Mp("clause", mp.cls, FALSE, mp.def),
             Mp("under", mp.cls, FALSE, mp.def)}
      [] mp.st = "under" /\ tok = "_" ->
            {Mp("postdef", mp.cls, FALSE, i)}
      [] OTHER -> {}

\* The successors of one matcher position on token tok, which is token i.
StepMp(mp, tok, i) ==
    CASE mp.st = "clause" /\ tok = "let" ->
            {Mp("cond", mp.cls, TRUE, mp.def)}
      [] mp.st \in {"clause", "cond"} /\ tok = "arm" ->
            {Mp("post", Append(mp.cls, [kind |-> IF mp.isLet THEN "let" ELSE "bool",
                                        at |-> i]), FALSE, mp.def)}
      [] mp.st = "post" /\ tok = "," ->
            {Mp("clause", mp.cls, FALSE, mp.def),
             Mp("under", mp.cls, FALSE, mp.def),
             Mp("end", mp.cls, FALSE, mp.def)}
      [] mp.st = "under" /\ tok = "_" ->
            {Mp("postdef", mp.cls, FALSE, i)}
      [] mp.st = "postdef" /\ tok = "," ->
            {Mp("end", mp.cls, FALSE, mp.def)}
      [] OTHER -> {}

Advance(ms, tok, i) == UNION {StepMp(mp, tok, i) : mp \in ms}

\* Positions from which the rest of the matcher matches the empty input.
AtEof(ms) == {mp \in ms : mp.st \in {"post", "postdef", "end"}}

\* The matcher run over a whole token list, from token i on.
RECURSIVE Feed(_, _, _)
Feed(ms, ts, i) ==
    IF i > Len(ts) THEN ms ELSE Feed(Advance(ms, ts[i], i), ts, i + 1)

\* The token list matches the macro's one rule.
Accepts(ts) == Cardinality(AtEof(Feed(InitialMps, ts, 1))) = 1

\* The captures of a token list that matches.
Captures(ts) == CHOOSE mp \in AtEof(Feed(InitialMps, ts, 1)) : TRUE

----------------------------------------------------------------------------
(* The transcriber *)

\* Mutant: the  $(let $pat = )?  prefix left out of the emitted test.
IfTokPlain(c) == [t |-> "if", kind |-> "bool", cond |-> c.at]

IfTok(c) == [t |-> "if", kind |-> c.kind, cond |-> c.at]
BlockTok(b) == [t |-> "block", branch |-> b]
ElseTok == [t |-> "else"]

\* Mutant: the repetition transcribed last clause first.
RECURSIVE ArmsReversed(_)
ArmsReversed(cls) ==
    IF cls = <<>> THEN <<>>
    ELSE ArmsReversed(Tail(cls)) \o <<IfTok(Head(cls)), BlockTok(Head(cls).at), ElseTok>>

\* Mutant: each clause transcribed with its test repeated.
RECURSIVE ArmsRetest(_)
ArmsRetest(cls) ==
    IF cls = <<>> THEN <<>>
    ELSE <<IfTok(Head(cls)), BlockTok(Head(cls).at), ElseTok,
           IfTok(Head(cls)), BlockTok(Head(cls).at), ElseTok>> \o ArmsRetest(Tail(cls))

\* $( if $(let $pat = )? $cond { $branch } else )+
RECURSIVE Arms(_)
Arms(cls) ==
    IF cls = <<>> THEN <<>>
    ELSE <<IfTok(Head(cls)), BlockTok(Head(cls).at), ElseTok>> \o Arms(Tail(cls))

\* Mutant: $def_branch left out of the final block.
TailBlockEmpty(d) == <<BlockTok(0)>>

\* { $( $def_branch )? } : branch 0 is the empty block.
TailBlock(d) == <<BlockTok(d)>>

\* Mutant: without a default, the last clause's body becomes the final
\* block, untested.
ExpandLastUnguarded(cls, d) ==
    IF d = 0
    THEN Arms(SubSeq(cls, 1, Len(cls) - 1)) \o <<BlockTok(cls[Len(cls)].at)>>
    ELSE Arms(cls) \o TailBlock(d)

Expand(cls, d) == Arms(cls) \o TailBlock(d)

----------------------------------------------------------------------------
(* The emitted chain at the use site *)

\* The host reads  if c { b } else <rest>  with <rest> as the else operand.
RECURSIVE Nest(_)
Nest(e) ==
    IF Head(e).t = "if"
    THEN [node |-> "if", kind |-> e[1].kind, cond |-> e[1].cond,
          then |-> e[2].branch, else |-> Nest(SubSeq(e, 4, Len(e)))]
    ELSE [node |-> "block", branch |-> e[1].branch]

\* Mutant: the final block taken to have the bodies' type even when empty.
TailTyBodies(e) == bodyTy

\* The type of the final block: the default has the bodies' type, and the
\* empty block is ().
TailTy(e) == IF e[Len(e)].branch = 0 THEN "unit" ELSE bodyTy

\* if / else requires both operands to have one type.
TypeOk(e) == TailTy(e) = bodyTy

\* Guard outcomes: for a condition 0 (false) or 1 (true), and for the target
\* of  let Some(x) = ...  either 0 (None) or v > 0 (Some(v)).
Outcomes(kind) == IF kind = "let" THEN 0 .. MaxPayload ELSE {0, 1}

Envs(cls) ==
    LET ats == {cls[i].at : i \in DOMAIN cls}
        clauseAt(a) == cls[CHOOSE i \in DOMAIN cls : cls[i].at = a]
    IN  {f \in [ats -> 0 .. MaxPayload] :
            \A a \in ats : f[a] \in Outcomes(clauseAt(a).kind)}

\* The use site's own binding of x, made before the invocation.
OuterScope == <<-1>>

\* The innermost binding of x.
Lookup(sc) == sc[Len(sc)]

\* Mutant: x bound to the target whether or not the pattern matched.
MatchPatLeaky(target) == <<target>>

\* Some(x) against a target: the bindings made, or none.
MatchPat(target) == IF target > 0 THEN <<target>> ELSE <<>>

\* Whether the guard of an if succeeds.
GuardHolds(kind, outcome) == IF kind = "let" THEN outcome > 0 ELSE outcome = 1

\* The scope after the guard was tested.
ScopeAfterGuard(sc, kind, outcome) ==
    IF kind = "let" THEN sc \o MatchPat(outcome) ELSE sc

\* Mutant: after the taken arm the chain goes on, as a C switch without break.
RestFallthrough(n, holds) == n.else

\* What is left to run once the guard of an if was tested: its block is the
\* whole of the taken arm, and the else operand is run only when it failed.
EndNode == [node |-> "end"]
Rest(n, holds) == IF holds THEN EndNode ELSE n.else

\* The value of a body that reads x as seen.
BranchValue(b, seen) == IF bodyTy = "int" THEN [branch |-> b, x |-> seen] ELSE "unit"

GuardEv(c, seen) == [ev |-> "guard", at |-> c, x |-> seen]
BodyEv(b, seen) == [ev |-> "body", at |-> b, x |-> seen]

----------------------------------------------------------------------------
(* Actions *)

Init ==
    /\ tokens \in SeqsUpTo(Alphabet, MaxTokens) \cup WellFormed
    /\ exprPos \in BOOLEAN
    /\ bodyTy \in {"int", "unit"}
    /\ pc = "match"
    /\ pos = 1
    /\ mps = InitialMps
    /\ clauses = <<>>
    /\ def = 0
    /\ emitted = <<>>
    /\ env = <<>>
    /\ cur = <<>>
    /\ inBody = 0
    /\ scope = OuterScope
    /\ trace = <<>>
    /\ result = "none"

\* The matcher takes one token; no position left is "no rules expected
\* this token".
MatchToken ==
    /\ pc = "match"
    /\ pos <= Len(tokens)
    /\ LET next == Advance(mps, tokens[pos], pos)
       IN  /\ mps' = next
           /\ IF next = {}
              THEN pc' = "syntax_error" /\ pos' = pos
              ELSE pc' = "match" /\ pos' = pos + 1
    /\ UNCHANGED <<tokens, exprPos, bodyTy, clauses, def, emitted, env, cur,
                   inBody, scope, trace, result>>

\* End of the invocation: the one position that is at the end of the
\* matcher gives the captures.
MatchEof ==
    /\ pc = "match"
    /\ pos > Len(tokens)
    /\ LET fin == AtEof(mps)
       IN  IF Cardinality(fin) = 1
           THEN LET mp == CHOOSE m \in fin : TRUE
                IN  /\ pc' = "matched"
                    /\ clauses' = mp.cls
                    /\ def' = mp.def
           ELSE /\ pc' = "syntax_error"
                /\ UNCHANGED <<clauses, def>>
    /\ UNCHANGED <<tokens, exprPos, bodyTy, pos, mps, emitted, env, cur,
                   inBody, scope, trace, result>>

Transcribe ==
    /\ pc = "matched"
    /\ emitted' = Expand(clauses, def)
    /\ pc' = "expanded"
    /\ UNCHANGED <<tokens, exprPos, bodyTy, pos, mps, clauses, def, env, cur,
                   inBody, scope, trace, result>>

\* The host's check of the emitted chain.
HostTypeCheck ==
    /\ pc = "expanded"
    /\ pc' = IF TypeOk(emitted) THEN "checked" ELSE "type_error"
    /\ UNCHANGED <<tokens, exprPos, bodyTy, pos, mps, clauses, def, emitted,
                   env, cur, inBody, scope, trace, result>>

\* The chain is run in some environment.
Start ==
    /\ pc = "checked"
    /\ env' \in Envs(clauses)
    /\ cur' = Nest(emitted)
    /\ pc' = "run"
    /\ UNCHANGED <<tokens, exprPos, bodyTy, pos, mps, clauses, def, emitted,
                   inBody, scope, trace, result>>

\* if $(let $pat = )? $cond
EvalGuard ==
    /\ pc = "run"
    /\ inBody = 0
    /\ cur.node = "if"
    /\ trace' = Append(trace, GuardEv(cur.cond, Lookup(scope)))
    /\ scope' = ScopeAfterGuard(scope, cur.kind, env[cur.cond])
    /\ IF GuardHolds(cur.kind, env[cur.cond])
       THEN inBody' = cur.then
       ELSE inBody' = 0
    /\ cur' = Rest(cur, GuardHolds(cur.kind, env[cur.cond]))
    /\ UNCHANGED <<tokens, exprPos, bodyTy, pc, pos, mps, clauses, def,
                   emitted, env, result>>

\* { $branch }
EvalBranch ==
    /\ pc = "run"
    /\ inBody # 0
    /\ trace' = Append(trace, BodyEv(inBody, Lookup(scope)))
    /\ result' = BranchValue(inBody, Lookup(scope))
    /\ scope' = OuterScope
    /\ inBody' = 0
    /\ pc' = IF cur = EndNode THEN "done" ELSE "run"
    /\ UNCHANGED <<tokens, exprPos, bodyTy, pos, mps, clauses, def, emitted,
                   env, cur>>

\* else { $def_branch }
EvalDefault ==
    /\ pc = "run"
    /\ inBody = 0
    /\ cur.node = "block"
    /\ cur.branch # 0
    /\ trace' = Append(trace, BodyEv(cur.branch, Lookup(scope)))
    /\ result' = BranchValue(cur.branch, Lookup(scope))
    /\ pc' = "done"
    /\ UNCHANGED <<tokens, exprPos, bodyTy, pos, mps, clauses, def, emitted,
                   env, cur, inBody, scope>>

\* else { }
EvalEmpty ==
    /\ pc = "run"
    /\ inBody = 0
    /\ cur.node = "block"
    /\ cur.branch = 0
    /\ result' = "unit"
    /\ pc' = "done"
    /\ UNCHANGED <<tokens, exprPos, bodyTy, pos, mps, clauses, def, emitted,
                   env, cur, inBody, scope, trace>>

Next ==
    \/ MatchToken
    \/ MatchEof
    \/ Transcribe
    \/ HostTypeCheck
    \/ Start
    \/ EvalGuard
    \/ EvalBranch
    \/ EvalDefault
    \/ EvalEmpty

Spec == Init /\ [][Next]_vars

----------------------------------------------------------------------------
(* The clause list as written, read off the token list in textual order *)

\* The arms, by token index, in textual order.
SrcArms == SelectSeq([i \in 1 .. Len(tokens) |-> i], LAMBDA i : tokens[i] = "arm")

\* The default clause's token index, 0 when there is none.
SrcDef ==
    IF \E i \in 1 .. Len(tokens) : tokens[i] = "_"
    THEN CHOOSE i \in 1 .. Len(tokens) : tokens[i] = "_"
    ELSE 0

SrcN == Len(SrcArms)

SrcKind(a) == IF a > 1 /\ tokens[a - 1] = "let" THEN "let" ELSE "bool"

\* Whether the guard written at arm a succeeds in the environment of the run.
SrcHolds(a) == IF SrcKind(a) = "let" THEN env[a] # 0 ELSE env[a] = 1

\* Clause k is the first whose guard succeeds.
FirstOk(k) ==
    /\ k \in 1 .. SrcN
    /\ SrcHolds(SrcArms[k])
    /\ \A j \in 1 .. k - 1 : ~SrcHolds(SrcArms[j])

AllFail == \A k \in 1 .. SrcN : ~SrcHolds(SrcArms[k])

\* Guard k is reached: every earlier guard fails.
Reached(k) == \A j \in 1 .. k - 1 : ~SrcHolds(SrcArms[j])

\* What x is inside the body written at a: the payload its own pattern
\* bound, or the use site's x.
SrcX(a) == IF a # SrcDef /\ SrcKind(a) = "let" THEN env[a] ELSE -1

\* The value of the body written at a.
SrcValue(a) == IF bodyTy = "int" THEN [branch |-> a, x |-> SrcX(a)] ELSE "unit"

Running == pc \in {"run", "done"}

BodyEvents == SelectSeq(trace, LAMBDA e : e.ev = "body")
GuardEvents == SelectSeq(trace, LAMBDA e : e.ev = "guard")

\* How many times the guard written at a was evaluated.
GuardCount(a) == Cardinality({i \in 1 .. Len(trace) : trace[i].ev = "guard" /\ trace[i].at = a})

\* The guards of clauses 1 .. k, each evaluated once, in order.
GuardsUpTo(k) == [j \in 1 .. k |-> [ev |-> "guard", at |-> SrcArms[j], x |-> -1]]

----------------------------------------------------------------------------
(* Claims *)

\* C1: when the guards of clauses 1..k-1 fail and the guard of clause k
\* succeeds, whatever the kinds of the guards, the chain yields the value of
\* clause k's body, and neither a guard nor a body of clauses k+1..N, nor
\* the default body, is evaluated.
C1_FirstSuccessWins ==
    Running =>
        \A k \in 1 .. SrcN : FirstOk(k) =>
            /\ \A i \in 1 .. Len(trace) : trace[i].at \in {SrcArms[j] : j \in 1 .. k}
            /\ \A i \in 1 .. Len(trace) : trace[i].ev = "body" => trace[i].at = SrcArms[k]
            /\ pc = "done" =>
                /\ result = SrcValue(SrcArms[k])
                /\ Len(BodyEvents) = 1

C1_Witness ==
    /\ pc = "done"
    /\ bodyTy = "int"
    /\ SrcN = 3
    /\ SrcDef # 0
    /\ FirstOk(2)
    /\ SrcHolds(SrcArms[3])
    /\ {SrcKind(SrcArms[j]) : j \in 1 .. 3} = {"bool", "let"}
    /\ result = SrcValue(SrcArms[2])

\* C2: at most one body, among the clause bodies and the default body, is
\* evaluated, even when several guards would succeed; with a default exactly
\* one is, and without a default and with every guard failing none is.
C2_OneBranch ==
    Running =>
        /\ Len(BodyEvents) <= 1
        /\ (pc = "done" /\ SrcDef # 0) => Len(BodyEvents) = 1
        /\ (pc = "done" /\ SrcDef = 0 /\ AllFail) => Len(BodyEvents) = 0

C2_Witness ==
    /\ pc = "done"
    /\ Cardinality({k \in 1 .. SrcN : SrcHolds(SrcArms[k])}) >= 2
    /\ Len(BodyEvents) = 1

\* C3: each guard expression is evaluated at most once, and a guard that is
\* reached (every earlier guard failed) is evaluated exactly once by the end
\* of the run, whatever precedes or follows it.
C3_GuardOnce ==
    Running =>
        \A k \in 1 .. SrcN :
            /\ GuardCount(SrcArms[k]) <= 1
            /\ (pc = "done" /\ Reached(k)) => GuardCount(SrcArms[k]) = 1
            /\ ~Reached(k) => GuardCount(SrcArms[k]) = 0

C3_Witness ==
    /\ pc = "done"
    /\ SrcN = 3
    /\ ~SrcHolds(SrcArms[1])
    /\ SrcHolds(SrcArms[2])
    /\ GuardCount(SrcArms[1]) = 1
    /\ GuardCount(SrcArms[2]) = 1
    /\ GuardCount(SrcArms[3]) = 0

\* C4: with a trailing default and every guard failing, the chain evaluates
\* the N guards in order, then the default body, and yields its value; the
\* default body is evaluated in no other case.
C4_DefaultFallback ==
    Running =>
        /\ (\E i \in 1 .. Len(trace) : trace[i].ev = "body" /\ trace[i].at = SrcDef)
              => (SrcDef # 0 /\ AllFail)
        /\ (pc = "done" /\ SrcDef # 0 /\ AllFail) =>
              /\ trace = GuardsUpTo(SrcN) \o <<[ev |-> "body", at |-> SrcDef, x |-> -1]>>
              /\ result = SrcValue(SrcDef)

C4_Witness ==
    /\ pc = "done"
    /\ bodyTy = "int"
    /\ SrcDef # 0
    /\ SrcN >= 2
    /\ AllFail
    /\ result = [branch |-> SrcDef, x |-> -1]

\* C5: without a default, when every guard fails the chain completes with the
\* unit value, no body evaluated, no error, and nothing observable but the
\* guards' own evaluation; when some guard succeeds the winning clause's
\* body runs as it does with a default.
C5_NoDefault ==
    /\ (tokens \in WellFormed /\ SrcDef = 0 /\ bodyTy = "unit")
          => pc \notin {"syntax_error", "type_error"}
    /\ (Running /\ SrcDef = 0) =>
          /\ AllFail => Len(BodyEvents) = 0
          /\ (pc = "done" /\ AllFail) =>
                /\ result = "unit"
                /\ trace = GuardsUpTo(SrcN)
                /\ scope = OuterScope
          /\ \A k \in 1 .. SrcN : (pc = "done" /\ FirstOk(k)) =>
                /\ trace = GuardsUpTo(k) \o <<[ev |-> "body", at |-> SrcArms[k],
                                               x |-> SrcX(SrcArms[k])]>>
                /\ result = SrcValue(SrcArms[k])

C5_Witness ==
    /\ pc = "done"
    /\ SrcDef = 0
    /\ SrcN >= 2
    /\ AllFail
    /\ result = "unit"
    /\ trace = GuardsUpTo(SrcN)

\* A default clause that is not in the last position: a further clause, or
\* a second default, follows it.
DefaultNotLast ==
    \E i \in 1 .. Len(tokens) :
        /\ tokens[i] = "_"
        /\ \E j \in (i + 1) .. Len(tokens) : tokens[j] \in {"let", "arm", "_"}

\* No clause at all, with or without a default.
ZeroClauses == \A i \in 1 .. Len(tokens) : tokens[i] # "arm"

Expanded == pc \in {"expanded", "checked", "type_error", "run", "done"}

\* C6: a clause list whose default is not last (further clauses or a second
\* default after it), or that has no clause, is rejected by the matcher:
\* nothing is captured and nothing is emitted.
C6_MalformedRejected ==
    (DefaultNotLast \/ ZeroClauses) =>
        /\ pc \in {"match", "syntax_error"}
        /\ (pc = "match" /\ pos > Len(tokens)) => AtEof(mps) = {}
        /\ clauses = <<>>
        /\ def = 0
        /\ emitted = <<>>

C6_Witness ==
    /\ pc = "syntax_error"
    /\ tokens = <<"arm", ",", "_", ",", "arm">>
    /\ pos = 5
    /\ emitted = <<>>

C8_BindingScope ==
    Running =>
        /\ \A i \in 1 .. Len(trace) : trace[i].ev = "guard" => trace[i].x = -1
        /\ \A i \in 1 .. Len(trace) : trace[i].ev = "body" => trace[i].x = SrcX(trace[i].at)
        /\ inBody = 0 => scope = OuterScope
        /\ inBody # 0 => scope = (IF SrcKind(inBody) = "let"
                                  THEN OuterScope \o <<env[inBody]>> ELSE OuterScope)

C8_Witness ==
    /\ pc = "done"
    /\ SrcN >= 2
    /\ SrcKind(SrcArms[1]) = "let"
    /\ SrcKind(SrcArms[2]) = "let"
    /\ env[SrcArms[1]] = 0
    /\ env[SrcArms[2]] = 2
    /\ trace[Len(trace)] = [ev |-> "body", at |-> SrcArms[2], x |-> 2]
    /\ scope = OuterScope

\* C9: a single trailing comma after the last clause, or after the default,
\* is accepted and changes neither the captured clauses, nor the default,
\* nor the expansion; there are as many clauses as arms written.
C9_TrailingCommaNeutral ==
    /\ (pc \in {"matched", "expanded"} /\ tokens[Len(tokens)] # ",") =>
          LET ext == Append(tokens, ",")
          IN  /\ Accepts(ext)
              /\ Captures(ext).cls = clauses
              /\ Captures(ext).def = def
              /\ pc = "expanded" => Expand(Captures(ext).cls, Captures(ext).def) = emitted
    /\ (pc \in {"matched", "expanded"} /\ tokens[Len(tokens)] = ",") =>
          LET base == SubSeq(tokens, 1, Len(tokens) - 1)
          IN  /\ Accepts(base)
              /\ Captures(base).cls = clauses
              /\ Captures(base).def = def
              /\ Len(clauses) = SrcN
              /\ pc = "expanded" => Expand(Captures(base).cls, Captures(base).def) = emitted
    /\ (tokens \in WellFormed) => pc # "syntax_error"

C9_Witness ==
    /\ pc = "expanded"
    /\ tokens[Len(tokens)] = ","
    /\ def # 0
    /\ Len(clauses) = 2
    /\ emitted = Expand(Captures(SubSeq(tokens, 1, Len(tokens) - 1)).cls, def)

\* The reference semantics: test clauses k..N in order, stop at the first
\* success, otherwise the default or the unit value.
RECURSIVE RefRun(_)
RefRun(k) ==
    IF k > SrcN
    THEN IF SrcDef # 0
         THEN [trace |-> <<[ev |-> "body", at |-> SrcDef, x |-> -1]>>,
               result |-> SrcValue(SrcDef)]
         ELSE [trace |-> <<>>, result |-> "unit"]
    ELSE LET a == SrcArms[k]
             g == [ev |-> "guard", at |-> a, x |-> -1]
         IN  IF SrcHolds(a)
             THEN [trace |-> <<g, [ev |-> "body", at |-> a, x |-> SrcX(a)]>>,
                   result |-> SrcValue(a)]
             ELSE [trace |-> <<g>> \o RefRun(k + 1).trace,
                   result |-> RefRun(k + 1).result]

\* The tests of a nested chain, outermost first, and its final block.
RECURSIVE ChainTests(_)
ChainTests(n) ==
    IF n.node = "if"
    THEN <<[kind |-> n.kind, cond |-> n.cond, then |-> n.then]>> \o ChainTests(n.else)
    ELSE <<>>

RECURSIVE ChainTail(_)
ChainTail(n) == IF n.node = "if" THEN ChainTail(n.else) ELSE n.branch

\* C10: the expansion is a right-nested if / else if chain with one test
\* per clause, clause 1 outermost, ending in the default body or an empty
\* block; its run makes the guard evaluations, the body evaluation and the
\* result of the reference left-to-right loop.
C10_RefinesReference ==
    /\ Expanded =>
          /\ Len(emitted) = 3 * SrcN + 1
          /\ ChainTests(Nest(emitted)) =
                [k \in 1 .. SrcN |-> [kind |-> SrcKind(SrcArms[k]),
                                      cond |-> SrcArms[k], then |-> SrcArms[k]]]
          /\ ChainTail(Nest(emitted)) = SrcDef
    /\ Running =>
          /\ Len(trace) <= Len(RefRun(1).trace)
          /\ trace = SubSeq(RefRun(1).trace, 1, Len(trace))
    /\ pc = "done" =>
          /\ trace = RefRun(1).trace
          /\ result = RefRun(1).result

C10_Witness ==
    /\ pc = "done"
    /\ bodyTy = "int"
    /\ SrcN = 3
    /\ SrcDef # 0
    /\ SrcKind(SrcArms[1]) = "bool"
    /\ SrcKind(SrcArms[2]) = "let"
    /\ SrcKind(SrcArms[3]) = "let"
    /\ env[SrcArms[2]] = 0
    /\ env[SrcArms[3]] = 1
    /\ Len(trace) = 4
    /\ result = RefRun(1).result

====
